---- MODULE Spec2Model ----
(***************************************************************************)
(* The state container of redux-basics: the counter program of             *)
(* "Part I/examples/number_counter/index.js" and the state manager the     *)
(* chapter builds (stateModifier / updateState / subscribeToState and      *)
(* createStore / myReducer).                                               *)
(*                                                                         *)
(* A store is a reducer, a current state and a list of listeners.  The     *)
(* model keeps, next to them, a record of every call made on a store (the  *)
(* dispatch log, what each subscribe returned, what getState returned), so *)
(* that properties about histories are state predicates.                   *)
(***************************************************************************)
EXTENDS Integers, Sequences, FiniteSets, TLC

\* Bound: the number of calls (dispatch, subscribe, getState, invoking a
\* value returned by subscribe) made on the stores in one behaviour.
MaxCalls == 4

\* Two closures made by two createStore calls.
Stores == {1, 2}

-----------------------------------------------------------------------------
(* JavaScript values.  Every value carries its type tag, so that values of   *)
(* different types are different and never compared field by field.          *)

Undefined == [tag |-> "undefined"]
Null == [tag |-> "null"]
NaN == [tag |-> "NaN"]
Num(n) == [tag |-> "number", val |-> n]
Str(x) == [tag |-> "string", val |-> x]
Obj(f) == [tag |-> "object", fields |-> f]
EmptyObject == Obj([k \in {} |-> Undefined])

\* o[k]: a property read on an object; an absent property reads undefined.
Get(o, k) ==
    IF o.tag = "object" /\ k \in DOMAIN o.fields THEN o.fields[k] ELSE Undefined

\* The own enumerable properties Object.assign copies from a source: those of
\* an object; undefined, null and numbers contribute none.
Props(v) == IF v.tag = "object" THEN v.fields ELSE [k \in {} |-> Undefined]

\* Object.assign({}, a, b): the properties of a, overwritten by those of b, in
\* a fresh object.
ObjectAssign(a, b) ==
    Obj([k \in DOMAIN Props(a) \cup DOMAIN Props(b) |->
            IF k \in DOMAIN Props(b) THEN Props(b)[k] ELSE Props(a)[k]])

\* a + b and a - b on numbers; undefined (or NaN) as an operand gives NaN.
Plus(a, b) ==
    IF a.tag = "number" /\ b.tag = "number" THEN Num(a.val + b.val) ELSE NaN

Minus(a, b) ==
    IF a.tag = "number" /\ b.tag = "number" THEN Num(a.val - b.val) ELSE NaN

\* The outcome of a call: a returned value or a thrown TypeError.
Return(v) == [threw |-> FALSE, value |-> v]
Throw == [threw |-> TRUE, value |-> Undefined]

-----------------------------------------------------------------------------
(* Actions dispatched by the programs of the source, one action of a type no *)
(* reducer tests for, and null, on which reading action.type throws.         *)

INCREMENT == Obj([type |-> Str("INCREMENT")])
DECREMENT == Obj([type |-> Str("DECREMENT")])
INCREMENT_BY == Obj([type |-> Str("INCREMENT_BY"), incrementByThis |-> Num(3)])
UPDATE_BIO == Obj([type |-> Str("UPDATE_BIO"), name |-> Str("Zak"), age |-> Num(17)])
INCREMENT_NUM == Obj([type |-> Str("INCREMENT_NUM"), incrementer |-> Num(5)])
UNRECOGNIZED == Obj([type |-> Str("SOMETHING_ELSE")])
ReduxInit == Obj([type |-> Str("@@redux/INIT")])

\* The actions a caller dispatches to a store with reducer r.
Dispatched(r) ==
    IF r = "numberReducer"
    THEN {INCREMENT, DECREMENT, INCREMENT_BY, UNRECOGNIZED, Null}
    ELSE {UPDATE_BIO, INCREMENT_NUM, UNRECOGNIZED, Null}

\* The callbacks a caller subscribes: both only observe the store.
Callbacks == {"renderNumber", "logUpdate"}

-----------------------------------------------------------------------------
(* The reducers.  Reading action.type of undefined or null throws a          *)
(* TypeError before anything else happens.                                   *)

\* Variant of numberReducer: the fall-through arm returns 0, not the state.
numberReducerResetting(state0, action) ==
    IF action \in {Undefined, Null} THEN Throw
    ELSE LET s == IF state0 = Undefined THEN Num(0) ELSE state0
             type == Get(action, "type")
         IN  IF type = Str("INCREMENT") THEN Return(Plus(s, Num(1)))
             ELSE IF type = Str("DECREMENT") THEN Return(Minus(s, Num(1)))
             ELSE IF type = Str("INCREMENT_BY")
                  THEN Return(Plus(s, Get(action, "incrementByThis")))
             ELSE Return(Num(0))

\* Variant of numberReducer: INCREMENT_BY ignores its payload and adds 1.
numberReducerByOne(state0, action) ==
    IF action \in {Undefined, Null} THEN Throw
    ELSE LET s == IF state0 = Undefined THEN Num(0) ELSE state0
             type == Get(action, "type")
         IN  IF type = Str("INCREMENT") THEN Return(Plus(s, Num(1)))
             ELSE IF type = Str("DECREMENT") THEN Return(Minus(s, Num(1)))
             ELSE IF type = Str("INCREMENT_BY") THEN Return(Plus(s, Num(1)))
             ELSE Return(s)

\* Variant of numberReducer: without the default for an undefined state.
numberReducerNoDefault(state0, action) ==
    IF action \in {Undefined, Null} THEN Throw
    ELSE LET s == state0
             type == Get(action, "type")
         IN  IF type = Str("INCREMENT") THEN Return(Plus(s, Num(1)))
             ELSE IF type = Str("DECREMENT") THEN Return(Minus(s, Num(1)))
             ELSE IF type = Str("INCREMENT_BY")
                  THEN Return(Plus(s, Get(action, "incrementByThis")))
             ELSE Return(s)

\* index.js: the reducer handed to redux.createStore.
numberReducer(state0, action) ==
    IF action \in {Undefined, Null} THEN Throw
    ELSE LET s == IF state0 = Undefined THEN Num(0) ELSE state0
             type == Get(action, "type")
         IN  IF type = Str("INCREMENT") THEN Return(Plus(s, Num(1)))
             ELSE IF type = Str("DECREMENT") THEN Return(Minus(s, Num(1)))
             ELSE IF type = Str("INCREMENT_BY")
                  THEN Return(Plus(s, Get(action, "incrementByThis")))
             ELSE Return(s)

\* Variant of stateModifier: INCREMENT_NUM builds its result without the old
\* state, Object.assign({}, { num: action.incrementer }).
stateModifierReplacing(oldState, action) ==
    IF action \in {Undefined, Null} THEN Throw
    ELSE IF Get(action, "type") = Str("UPDATE_BIO")
         THEN Return(ObjectAssign(oldState,
                  Obj([name |-> Get(action, "name"), age |-> Get(action, "age")])))
    ELSE IF Get(action, "type") = Str("INCREMENT_NUM")
         THEN Return(ObjectAssign(Undefined,
                  Obj([num |-> Get(action, "incrementer")])))
    ELSE Return(oldState)

\* The chapter's stateModifier.
stateModifier(oldState, action) ==
    IF action \in {Undefined, Null} THEN Throw
    ELSE IF Get(action, "type") = Str("UPDATE_BIO")
         THEN Return(ObjectAssign(oldState,
                  Obj([name |-> Get(action, "name"), age |-> Get(action, "age")])))
    ELSE IF Get(action, "type") = Str("INCREMENT_NUM")
         THEN Return(ObjectAssign(oldState,
                  Obj([num |-> Get(action, "incrementer")])))
    ELSE Return(oldState)

\* The chapter's myReducer, the reducer given to createStore.
myReducer(oldState, action) ==
    IF action \in {Undefined, Null} THEN Throw
    ELSE IF Get(action, "type") = Str("UPDATE_BIO")
         THEN Return(ObjectAssign(oldState,
                  Obj([name |-> Get(action, "name"), age |-> Get(action, "age")])))
    ELSE IF Get(action, "type") = Str("INCREMENT_NUM")
         THEN Return(ObjectAssign(oldState,
                  Obj([num |-> Get(action, "incrementer")])))
    ELSE Return(oldState)

\* reducer(state, action) for the reducer a store was built with.
Reduce(r, st, action) ==
    CASE r = "numberReducer" -> numberReducer(st, action)
      [] r = "stateModifier" -> stateModifier(st, action)
      [] r = "myReducer" -> myReducer(st, action)

-----------------------------------------------------------------------------
(* Construction.                                                             *)

\* createStore(reducer, initialState): var state = initialState; var listeners = [].
createStore(r, initialState) ==
    [reducer |-> r, state |-> initialState, listeners |-> <<>>]

\* index.js builds its store with the redux library, redux.createStore(reducer):
\* no preloaded state, and the library dispatches its own init action, of a
\* type no reducer knows, before it returns the store.
numberStore ==
    [reducer |-> "numberReducer",
     state |-> numberReducer(Undefined, ReduxInit).value,
     listeners |-> <<>>]

\* The chapter's module-level manager: var state = { num: 0, name: '', age: null };
\* var listeners = []; with stateModifier as its reducer.
stateManager ==
    [reducer |-> "stateModifier",
     state |-> Obj([num |-> Num(0), name |-> Str(""), age |-> Null]),
     listeners |-> <<>>]

\* var store = createStore(myReducer, {});
store == createStore("myReducer", EmptyObject)

\* The programs of the source.
Programs == {numberStore, stateManager, store}

-----------------------------------------------------------------------------
VARIABLES
    reducer,    \* reducer[s]: the reducer store s was built with
    initial,    \* initial[s]: the state of store s when construction returned
    state,      \* state[s]: var state
    listeners,  \* listeners[s]: var listeners, a sequence of callbacks
    log,        \* log[s]: one record per dispatch call made on s, in order
    subs,       \* subs[s]: one record per subscribe call made on s, in order
    gets,       \* gets[s]: what the getState calls since the last dispatch returned
    thrown,     \* what the most recent call threw: "none" or "TypeError"
    ncalls,     \* the number of calls made so far
    trace,      \* the calls and callback runs so far, in order, where a specification records them
    stack,      \* the dispatches in progress, innermost last, where callbacks call the store
    heap        \* the objects allocated so far and who holds them, where identity is modelled

vars == <<reducer, initial, state, listeners, log, subs, gets, thrown, ncalls,
          trace, stack, heap>>

\* The variables only the wider specifications below write.
wider == <<trace, stack, heap>>

\* The store the callers of a behaviour work on; the other one is left alone.
Used == {1}

\* The stores built by redux.createStore rather than by the chapter's code.
ByRedux == {s \in Stores : reducer[s] = "numberReducer"}

Init ==
    /\ \E p \in Programs :
          /\ reducer = [s \in Stores |-> IF s \in Used THEN p.reducer ELSE store.reducer]
          /\ initial = [s \in Stores |-> IF s \in Used THEN p.state ELSE store.state]
          /\ state = [s \in Stores |-> IF s \in Used THEN p.state ELSE store.state]
          /\ listeners = [s \in Stores |-> IF s \in Used THEN p.listeners ELSE store.listeners]
    /\ log = [s \in Stores |-> <<>>]
    /\ subs = [s \in Stores |-> <<>>]
    /\ gets = [s \in Stores |-> <<>>]
    /\ thrown = "none"
    /\ ncalls = 0
    /\ trace = <<>>
    /\ stack = <<>>
    /\ heap = [objects |-> <<>>, held |-> {}]

-----------------------------------------------------------------------------
(* The operations.                                                           *)

\* Variant of forEach: the list is walked from its end.
forEachReversed(ls, before, after) ==
    [i \in 1..Len(ls) |-> [fn |-> ls[Len(ls) + 1 - i], seen |-> after]]

\* Variant of forEach: the callbacks run before the assignment to state.
forEachStale(ls, before, after) ==
    [i \in 1..Len(ls) |-> [fn |-> ls[i], seen |-> before]]

\* listeners.forEach(function(listener) { listener(); }), run after the
\* assignment to state: each callback is called once, in list order, and what
\* it reads through getState() is the state at that moment.
forEach(ls, before, after) ==
    [i \in 1..Len(ls) |-> [fn |-> ls[i], seen |-> after]]

\* Variant of reduced: the reducer is applied to the initial state.
reducedFromInitial(s, action) == Reduce(reducer[s], initial[s], action)

\* reducer(state, action) on the store's current state.
reduced(s, action) == Reduce(reducer[s], state[s], action)

\* What one dispatch call leaves behind: the state slot holding `after`, the
\* error that reached the caller, and the call's record in the log.
Recorded(s, action, threw, after, notified) ==
    /\ ncalls < MaxCalls
    /\ ncalls' = ncalls + 1
    /\ state' = [state EXCEPT ![s] = after]
    /\ thrown' = IF threw THEN "TypeError" ELSE "none"
    /\ log' = [log EXCEPT ![s] = Append(@,
                  [action |-> action, threw |-> threw,
                   before |-> state[s], after |-> after,
                   notified |-> notified])]
    /\ gets' = [gets EXCEPT ![s] = <<>>]
    /\ UNCHANGED <<reducer, initial, listeners, subs>>

\* Variant of dispatchAction: the listeners are called only when the reducer
\* returned a state different from the current one.
dispatchIfChanged(s, action) ==
    LET r == reduced(s, action) IN
    IF r.threw
    THEN Recorded(s, action, TRUE, state[s], <<>>)
    ELSE Recorded(s, action, FALSE, r.value,
                  IF r.value = state[s] THEN <<>>
                  ELSE forEach(listeners[s], state[s], r.value))

\* Variant of dispatchAction: the forEach sits in a finally block, so the
\* listeners are called also when the reducer threw.
dispatchNotifyAlways(s, action) ==
    LET r == reduced(s, action) IN
    IF r.threw
    THEN Recorded(s, action, TRUE, state[s],
                  forEach(listeners[s], state[s], state[s]))
    ELSE Recorded(s, action, FALSE, r.value,
                  forEach(listeners[s], state[s], r.value))

\* dispatchAction(action) (updateState(action) in the module-level manager):
\* state = reducer(state, action); then the forEach.  When the reducer throws,
\* the assignment and the forEach are never reached.
dispatchAction(s, action) ==
    LET r == reduced(s, action) IN
    IF r.threw
    THEN Recorded(s, action, TRUE, state[s], <<>>)
    ELSE Recorded(s, action, FALSE, r.value,
                  forEach(listeners[s], state[s], r.value))

\* A function value.
Function == [tag |-> "function"]

\* Variant of Pushed: var listeners is declared outside createStore, so one
\* array serves every store.
PushedShared(s, callback, returned) ==
    /\ ncalls < MaxCalls
    /\ ncalls' = ncalls + 1
    /\ listeners' = [t \in Stores |-> Append(listeners[t], callback)]
    /\ subs' = [subs EXCEPT ![s] = Append(@,
                    [at |-> Len(log[s]), returned |-> returned, invokedAt |-> -1])]
    /\ thrown' = "none"
    /\ UNCHANGED <<reducer, initial, state, log, gets>>

\* Variant of Pushed: a callback already in the list is not pushed again.
PushedOnce(s, callback, returned) ==
    /\ ncalls < MaxCalls
    /\ ncalls' = ncalls + 1
    /\ listeners' = [listeners EXCEPT ![s] =
                        IF \E j \in DOMAIN @ : @[j] = callback
                          THEN @ ELSE Append(@, callback)]
    /\ subs' = [subs EXCEPT ![s] = Append(@,
                    [at |-> Len(log[s]), returned |-> returned, invokedAt |-> -1])]
    /\ thrown' = "none"
    /\ UNCHANGED <<reducer, initial, state, log, gets>>

\* What a subscribe call leaves behind: the callback at the end of the list,
\* and the record of the call with the value it returned to the caller.
Pushed(s, callback, returned) ==
    /\ ncalls < MaxCalls
    /\ ncalls' = ncalls + 1
    /\ listeners' = [listeners EXCEPT ![s] = Append(@, callback)]
    /\ subs' = [subs EXCEPT ![s] = Append(@,
                    [at |-> Len(log[s]), returned |-> returned, invokedAt |-> -1])]
    /\ thrown' = "none"
    /\ UNCHANGED <<reducer, initial, state, log, gets>>

\* Variant of subscribe: it returns a function.
subscribeReturningHandle(s, callback) == Pushed(s, callback, Function)

\* Variant of subscribe: it also assigns the initial state to state.
subscribeResetting(s, callback) ==
    /\ ncalls < MaxCalls
    /\ ncalls' = ncalls + 1
    /\ listeners' = [listeners EXCEPT ![s] = Append(@, callback)]
    /\ subs' = [subs EXCEPT ![s] = Append(@,
                    [at |-> Len(log[s]), returned |-> Undefined, invokedAt |-> -1])]
    /\ state' = [state EXCEPT ![s] = initial[s]]
    /\ thrown' = "none"
    /\ UNCHANGED <<reducer, initial, log, gets>>

\* subscribe(callback) (subscribeToState(listener)): listeners.push(callback).
\* The function has no return statement: the call evaluates to undefined.
\* (numberStore.subscribe is the redux library's; it returns a function, which
\* index.js discards.)
subscribe(s, callback) ==
    Pushed(s, callback, IF s \in ByRedux THEN Function ELSE Undefined)

\* getState(): return state.
getState(s) ==
    /\ ncalls < MaxCalls
    /\ ncalls' = ncalls + 1
    /\ gets' = [gets EXCEPT ![s] = Append(@,
                    [val |-> state[s], nl |-> Len(listeners[s])])]
    /\ thrown' = "none"
    /\ UNCHANGED <<reducer, initial, state, listeners, log, subs>>

\* A caller applies () to what the i-th subscribe call of the chapter's
\* subscribe returned, as it would to an unsubscribe handle.  Calling a value
\* that is not a function throws a TypeError and does nothing else.
invokeReturned(s, i) ==
    /\ ncalls < MaxCalls
    /\ i \in DOMAIN subs[s]
    /\ subs[s][i].invokedAt = -1
    /\ subs[s][i].returned # Function
    /\ ncalls' = ncalls + 1
    /\ subs' = [subs EXCEPT ![s][i].invokedAt = Len(log[s])]
    /\ thrown' = "TypeError"
    /\ UNCHANGED <<reducer, initial, state, listeners, log, gets>>

Next ==
    \E s \in Used :
        \/ \E action \in Dispatched(reducer[s]) :
               dispatchAction(s, action) /\ UNCHANGED wider
        \/ \E callback \in Callbacks : subscribe(s, callback) /\ UNCHANGED wider
        \/ getState(s) /\ UNCHANGED wider
        \/ \E i \in 1..MaxCalls : invokeReturned(s, i) /\ UNCHANGED wider

Spec == Init /\ [][Next]_vars

-----------------------------------------------------------------------------
(* The chapter's usage example: the calls it makes on the object createStore *)
(* returns.                                                                  *)

\* return { dispatchAction: dispatchAction, subscribe: subscribe, getState: getState };
StoreObject == {"dispatchAction", "subscribe", "getState"}

\* store.dispatch(action), as the usage example writes it, on a store built by
\* createStore: a property the object has is called; a property it lacks reads
\* undefined, and calling undefined throws a TypeError before anything runs.
dispatch(s, action) ==
    /\ reducer[s] = "myReducer"
    /\ IF "dispatch" \in StoreObject
         THEN /\ dispatchAction(s, action)
              /\ trace' = Append(trace, [call |-> "store.dispatch", store |-> s,
                                         action |-> action, threw |-> FALSE])
         ELSE /\ ncalls < MaxCalls
              /\ ncalls' = ncalls + 1
              /\ thrown' = "TypeError"
              /\ trace' = Append(trace, [call |-> "store.dispatch", store |-> s,
                                         action |-> action, threw |-> TRUE])
              /\ UNCHANGED <<reducer, initial, state, listeners, log, subs, gets>>
    /\ UNCHANGED <<stack, heap>>

NextExample ==
    \/ Next
    \/ \E s \in Used : \E action \in {UPDATE_BIO, INCREMENT_NUM} : dispatch(s, action)

SpecExample == Init /\ [][NextExample]_vars

-----------------------------------------------------------------------------
(* Two stores in use: the calls go to either of the two closures.            *)

NextTwo ==
    \E s \in Stores :
        \/ \E action \in Dispatched(reducer[s]) :
               dispatchAction(s, action) /\ UNCHANGED wider
        \/ \E callback \in Callbacks : subscribe(s, callback) /\ UNCHANGED wider
        \/ getState(s) /\ UNCHANGED wider

SpecTwo == Init /\ [][NextTwo]_vars

-----------------------------------------------------------------------------
(* Callbacks that call the store or throw.  dispatchAction is followed step  *)
(* by step: the reducer call and the assignment, then one callback per step, *)
(* then the return.  stack holds one frame per dispatchAction call that has  *)
(* not returned; trace records what happened, in order.                      *)

\* The callbacks subscribed here:
\*   logUpdate   function() { console.log(...) }
\*   thrower     function() { throw new Error() }
\*   subscriber  function() { if (!done) { done = true; store.subscribe(logUpdate) } }
\*   dispatcher  function() { if (!fired) { fired = true; store.dispatchAction(a) } }
CallbacksRe == {"logUpdate", "thrower", "subscriber", "dispatcher"}

\* The action the dispatcher callback dispatches.
Nested(r) == IF r = "numberReducer" THEN INCREMENT ELSE INCREMENT_NUM

Ev(ev, s, d, i) == [ev |-> ev, store |-> s, d |-> d, i |-> i]

\* The dispatcher callback of s has dispatched already.
Fired(s) ==
    \E n \in DOMAIN trace :
        trace[n].ev = "begin" /\ trace[n].store = s /\ trace[n].i > 0

\* The subscriber callback of s has subscribed already.
Subscribed(s) ==
    \E n \in DOMAIN trace :
        trace[n].ev = "subscribe" /\ trace[n].store = s /\ trace[n].d > 0

Top == stack[Len(stack)]

\* The frame of a dispatchAction call: the d-th on s, about to call the k-th
\* callback; len is the length of the array when forEach started.
Frame(s, d, len) == [store |-> s, d |-> d, k |-> 1, len |-> len]

\* forEach moves on to the next index, whatever the callback then does.
Advance(st) == [st EXCEPT ![Len(st)].k = @ + 1]

\* Variant of loopBound: the loop tests the length of the array at each step,
\* for (i = 0; i < listeners.length; i++).
loopBoundLive(f, ls) == Len(ls)

\* Array.prototype.forEach reads the length once, before the first callback:
\* elements pushed while it runs are not visited.
loopBound(f, ls) == f.len

\* Variant of propagate: each callback is called in a try block, so the loop
\* goes on with the next callback.
propagateCaught(st) == st

\* An error thrown by a callback is caught nowhere: not by forEach, not by
\* dispatchAction, not by a callback that called dispatchAction.  Every frame
\* is left.
propagate(st) == <<>>

\* The frames an error leaves, innermost first, each with the index of the
\* callback that was running in it.
Unwound(st) ==
    [j \in 1..Len(st) |->
        Ev("throw", st[Len(st) + 1 - j].store, st[Len(st) + 1 - j].d,
           st[Len(st) + 1 - j].k - 1)]

\* The top frame is about to call callback fn.
Calls(fn) ==
    /\ stack # <<>>
    /\ Top.k <= loopBound(Top, listeners[Top.store])
    /\ Top.k <= Len(listeners[Top.store])
    /\ listeners[Top.store][Top.k] = fn

\* The record of the running dispatch, with the call of its next callback.
Called ==
    [log[Top.store] EXCEPT ![Top.d].notified =
        Append(@, [fn |-> listeners[Top.store][Top.k], seen |-> state[Top.store]])]

CallEv == Ev("call", Top.store, Top.d, Top.k)

\* dispatchAction(action) up to the start of its forEach, called with the
\* frames `below` on the stack: state = reducer(state, action), then the loop
\* starts.  When the reducer throws, the error leaves every frame.
begin(s, action, below, lg, events) ==
    LET r == reduced(s, action)
        d == Len(lg) + 1
    IN
    /\ ncalls < MaxCalls
    /\ ncalls' = ncalls + 1
    /\ IF r.threw
         THEN /\ state' = state
              /\ log' = [log EXCEPT ![s] = Append(lg,
                            [action |-> action, threw |-> TRUE,
                             before |-> state[s], after |-> state[s],
                             notified |-> <<>>])]
              /\ thrown' = "TypeError"
              /\ stack' = propagate(below)
              /\ trace' = trace \o events \o Unwound(below)
         ELSE /\ state' = [state EXCEPT ![s] = r.value]
              /\ log' = [log EXCEPT ![s] = Append(lg,
                            [action |-> action, threw |-> FALSE,
                             before |-> state[s], after |-> r.value,
                             notified |-> <<>>])]
              /\ thrown' = "none"
              /\ stack' = Append(below, Frame(s, d, Len(listeners[s])))
              /\ trace' = trace \o events \o <<Ev("begin", s, d, Len(below))>>
    /\ gets' = [gets EXCEPT ![s] = <<>>]
    /\ UNCHANGED <<reducer, initial, listeners, subs, heap>>

\* A caller outside any callback calls dispatchAction.
dispatchRe(s, action) ==
    /\ stack = <<>>
    /\ begin(s, action, <<>>, log[s], <<>>)

\* A caller outside any callback calls subscribe.
subscribeRe(s, callback) ==
    /\ stack = <<>>
    /\ subscribe(s, callback)
    /\ trace' = Append(trace, Ev("subscribe", s, 0, Len(listeners[s]) + 1))
    /\ UNCHANGED <<stack, heap>>

\* listener(), for a callback that only observes (and for the dispatcher and
\* the subscriber once they have made their call): it reads the state and
\* returns.
runObserver ==
    /\ \/ Calls("logUpdate")
       \/ Calls("dispatcher") /\ Fired(Top.store)
       \/ Calls("subscriber") /\ Subscribed(Top.store)
    /\ log' = [log EXCEPT ![Top.store] = Called]
    /\ stack' = Advance(stack)
    /\ trace' = Append(trace, CallEv)
    /\ UNCHANGED <<reducer, initial, state, listeners, subs, gets, thrown, ncalls, heap>>

\* listener(), for the callback that throws.
runThrower ==
    /\ Calls("thrower")
    /\ log' = [log EXCEPT ![Top.store] = Called]
    /\ stack' = propagate(Advance(stack))
    /\ trace' = Append(trace, CallEv) \o Unwound(Advance(stack))
    /\ thrown' = "Error"
    /\ UNCHANGED <<reducer, initial, state, listeners, subs, gets, ncalls, heap>>

\* listener(), for the subscriber the first time: it subscribes logUpdate.
runSubscriber ==
    /\ Calls("subscriber")
    /\ ~Subscribed(Top.store)
    /\ ncalls < MaxCalls
    /\ ncalls' = ncalls + 1
    /\ log' = [log EXCEPT ![Top.store] = Called]
    /\ listeners' = [listeners EXCEPT ![Top.store] = Append(@, "logUpdate")]
    /\ subs' = [subs EXCEPT ![Top.store] = Append(@,
                    [at |-> Len(log[Top.store]),
                     returned |-> IF Top.store \in ByRedux THEN Function ELSE Undefined,
                     invokedAt |-> -1])]
    /\ stack' = Advance(stack)
    /\ trace' = trace \o <<CallEv, Ev("subscribe", Top.store, Top.d,
                                      Len(listeners[Top.store]) + 1)>>
    /\ UNCHANGED <<reducer, initial, state, gets, thrown, heap>>

\* listener(), for the dispatcher the first time: it calls dispatchAction,
\* which runs inside the forEach of the dispatch that called the callback.
runDispatcher ==
    /\ Calls("dispatcher")
    /\ ~Fired(Top.store)
    /\ begin(Top.store, Nested(reducer[Top.store]), Advance(stack), Called, <<CallEv>>)

\* forEach has visited every index below its bound: dispatchAction returns.
returnRe ==
    /\ stack # <<>>
    /\ Top.k > loopBound(Top, listeners[Top.store])
    /\ stack' = SubSeq(stack, 1, Len(stack) - 1)
    /\ trace' = Append(trace, Ev("end", Top.store, Top.d, 0))
    /\ thrown' = "none"
    /\ UNCHANGED <<reducer, initial, state, listeners, log, subs, gets, ncalls, heap>>

NextRe ==
    \/ \E s \in Used : \E action \in Dispatched(reducer[s]) : dispatchRe(s, action)
    \/ \E s \in Used : \E callback \in CallbacksRe : subscribeRe(s, callback)
    \/ runObserver
    \/ runThrower
    \/ runSubscriber
    \/ runDispatcher
    \/ returnRe

SpecRe == Init /\ [][NextRe]_vars

-----------------------------------------------------------------------------
(* The counter reducer on its own: called with every state and action of a   *)
(* bounded range, as numberStore.dispatch calls it.                          *)

\* The states the reducer is called with: undefined (by redux.createStore,
\* before the first state exists) and the integers near 0.
CounterStates == {Undefined} \cup {Num(n) : n \in -MaxCalls..MaxCalls}

IncrementBy(k) == Obj([type |-> Str("INCREMENT_BY"), incrementByThis |-> Num(k)])

\* The actions: the three kinds the reducer names, with several payloads, an
\* action of another type and an action with no type.
CounterActions ==
    {INCREMENT, DECREMENT, UNRECOGNIZED, EmptyObject}
        \cup {IncrementBy(k) : k \in {-2, 0, 3}}

InitCounter ==
    /\ reducer = [s \in Stores |-> IF s \in Used THEN "numberReducer" ELSE store.reducer]
    /\ \E st \in CounterStates :
          /\ initial = [s \in Stores |-> IF s \in Used THEN st ELSE store.state]
          /\ state = initial
    /\ listeners = [s \in Stores |-> <<>>]
    /\ log = [s \in Stores |-> <<>>]
    /\ subs = [s \in Stores |-> <<>>]
    /\ gets = [s \in Stores |-> <<>>]
    /\ thrown = "none"
    /\ ncalls = 0
    /\ trace = <<>>
    /\ stack = <<>>
    /\ heap = [objects |-> <<>>, held |-> {}]

\* One call of the reducer, with the state it was given and what came of it.
reduceCounter(s, action) ==
    /\ dispatchAction(s, action)
    /\ trace' = Append(trace, [state0 |-> state[s], action |-> action,
                               threw |-> reduced(s, action).threw,
                               result |-> reduced(s, action).value])
    /\ UNCHANGED <<stack, heap>>

NextCounter ==
    \E s \in Used : \E action \in CounterActions : reduceCounter(s, action)

SpecCounter == InitCounter /\ [][NextCounter]_vars

-----------------------------------------------------------------------------
(* Objects by identity.  heap.objects holds the objects the reducers have    *)
(* been given or have made, each with its present fields; heap.cur is the    *)
(* one the variable state refers to; heap.held holds the references callers  *)
(* got from getState, each with the fields it had when it was returned.      *)

\* Variant of assignTarget: Object.assign(oldState, {...}), which writes the
\* new properties into the object it was given.
assignTargetOld(cur, fresh) == cur

\* The first argument of Object.assign in the reducers is the literal {}: the
\* properties are copied into an object made by that call.
assignTarget(cur, fresh) == fresh

\* The stores whose state is an object.
ObjectPrograms == {p \in Programs : p.state.tag = "object"}

InitHeap ==
    /\ \E p \in ObjectPrograms :
          /\ reducer = [s \in Stores |-> IF s \in Used THEN p.reducer ELSE store.reducer]
          /\ initial = [s \in Stores |-> IF s \in Used THEN p.state ELSE store.state]
          /\ state = initial
          /\ listeners = [s \in Stores |-> IF s \in Used THEN p.listeners ELSE store.listeners]
          /\ heap = [objects |-> <<p.state>>, cur |-> 1, held |-> {}]
    /\ log = [s \in Stores |-> <<>>]
    /\ subs = [s \in Stores |-> <<>>]
    /\ gets = [s \in Stores |-> <<>>]
    /\ thrown = "none"
    /\ ncalls = 0
    /\ trace = <<>>
    /\ stack = <<>>

\* The action takes one of the two branches that call Object.assign.
Assigns(action) ==
    Get(action, "type") \in {Str("UPDATE_BIO"), Str("INCREMENT_NUM")}

\* The object the reducer returns: the one it was given when no type matches
\* (return oldState) or when it throws before returning; otherwise the target
\* of Object.assign, holding the fields of the returned value.
Returned(s, action) ==
    LET r == reduced(s, action)
        tgt == assignTarget(heap.cur, Len(heap.objects) + 1)
    IN  IF r.threw \/ ~Assigns(action)
          THEN [heap EXCEPT !.cur = heap.cur]
        ELSE IF tgt \in DOMAIN heap.objects
          THEN [heap EXCEPT !.objects[tgt] = r.value, !.cur = tgt]
        ELSE [heap EXCEPT !.objects = Append(@, r.value), !.cur = tgt]

\* dispatchAction(action), with the object state refers to afterwards.
dispatchRef(s, action) ==
    /\ dispatchAction(s, action)
    /\ heap' = Returned(s, action)
    /\ UNCHANGED <<trace, stack>>

\* getState(): the caller receives the reference held in state, not a copy.
getStateRef(s) ==
    /\ getState(s)
    /\ heap' = [heap EXCEPT !.held =
                   @ \cup {[ref |-> heap.cur, seen |-> heap.objects[heap.cur]]}]
    /\ UNCHANGED <<trace, stack>>

NextHeap ==
    \E s \in Used :
        \/ \E action \in Dispatched(reducer[s]) : dispatchRef(s, action)
        \/ getStateRef(s)

SpecHeap == InitHeap /\ [][NextHeap]_vars

-----------------------------------------------------------------------------
(* Reading the record of calls.                                              *)

\* The dispatch calls on s whose reducer returned.
Committed(s) == SelectSeq(log[s], LAMBDA e : ~e.threw)

ActionsOf(entries) == [i \in 1..Len(entries) |-> entries[i].action]

AftersOf(entries) == [i \in 1..Len(entries) |-> entries[i].after]

\* reducer(...reducer(reducer(st, a1), a2)..., an)
RECURSIVE FoldLeft(_, _, _)
FoldLeft(r, st, actions) ==
    IF actions = <<>> THEN st
    ELSE FoldLeft(r, Reduce(r, st, Head(actions)).value, Tail(actions))

\* How many subscribe calls on s had returned when its d-th dispatch started.
RegisteredBefore(s, d) ==
    Cardinality({i \in DOMAIN subs[s] : subs[s][i].at < d})

\* The d-th dispatch on s called the i-th subscribed callback.
Invoked(s, d, i) ==
    /\ i \in DOMAIN log[s][d].notified
    /\ i \in DOMAIN listeners[s]
    /\ log[s][d].notified[i].fn = listeners[s][i]

\* The action types a reducer tests for.
Recognizes(r) ==
    IF r = "numberReducer"
    THEN {Str("INCREMENT"), Str("DECREMENT"), Str("INCREMENT_BY")}
    ELSE {Str("UPDATE_BIO"), Str("INCREMENT_NUM")}

Unrecognized(s, d) ==
    /\ log[s][d].action.tag = "object"
    /\ Get(log[s][d].action, "type") \notin Recognizes(reducer[s])

-----------------------------------------------------------------------------
(* The claims.                                                               *)

\* C1: after any sequence of dispatched actions, interleaved with subscribe
\* and getState calls, the current state and what getState() returns equal the
\* left fold of the reducer over the initial state and the actions; before any
\* dispatch they equal the initial state.
C1_StateIsLeftFold ==
    \A s \in Stores :
        LET folded == FoldLeft(reducer[s], initial[s], ActionsOf(Committed(s))) IN
        /\ state[s] = folded
        /\ \A i \in DOMAIN gets[s] : gets[s][i].val = folded
        /\ log[s] = <<>> => state[s] = initial[s]

C1_Witness ==
    \E s \in Stores :
        /\ Len(Committed(s)) >= 2
        /\ Len(listeners[s]) >= 1
        /\ Len(gets[s]) >= 1
        /\ state[s] # initial[s]
        /\ Committed(s)[1].after # state[s]

\* C2: a dispatch whose reducer returns calls every callback subscribed before
\* it started exactly once per occurrence in the list, in subscription order,
\* and calls nothing else.
C2_NotifiedInOrder ==
    \A s \in Stores : \A d \in DOMAIN log[s] :
        ~log[s][d].threw =>
            /\ Len(log[s][d].notified) = RegisteredBefore(s, d)
            /\ \A i \in 1..RegisteredBefore(s, d) : Invoked(s, d, i)

C2_Witness ==
    \E s \in Stores : \E d \in DOMAIN log[s] :
        /\ ~log[s][d].threw
        /\ Len(log[s][d].notified) = 3
        /\ log[s][d].notified[1].fn = log[s][d].notified[3].fn
        /\ log[s][d].notified[1].fn # log[s][d].notified[2].fn

\* C3 as stated: once the caller has invoked what subscribe returned for a
\* listener, no later dispatch calls that listener.
C3_Original ==
    \A s \in Stores : \A i \in DOMAIN subs[s] :
        subs[s][i].invokedAt >= 0 =>
            \A d \in DOMAIN log[s] :
                d > subs[s][i].invokedAt => ~Invoked(s, d, i)

\* C3, amended: the chapter's subscribe returns undefined, not a handle, and
\* after the caller has invoked that value the listener is still called by
\* every later dispatch whose reducer returns; invoking the value throws a
\* TypeError and leaves the listener list as it was; the records of completed
\* dispatches never change.
C3_NoUnsubscribe ==
    /\ [](\A s \in Stores \ ByRedux : \A i \in DOMAIN subs[s] :
            /\ subs[s][i].returned = Undefined
            /\ subs[s][i].invokedAt >= 0 =>
                 \A d \in DOMAIN log[s] :
                    (d > subs[s][i].invokedAt /\ ~log[s][d].threw)
                        => Invoked(s, d, i))
    /\ [][\A s \in Stores :
            /\ Len(log'[s]) >= Len(log[s])
            /\ SubSeq(log'[s], 1, Len(log[s])) = log[s]
            /\ \A i \in DOMAIN subs[s] :
                  (subs[s][i].invokedAt = -1 /\ subs'[s][i].invokedAt >= 0)
                      => thrown' = "TypeError" /\ listeners'[s] = listeners[s]]_vars

C3_Witness ==
    \E s \in Stores : \E i \in DOMAIN subs[s] :
        /\ subs[s][i].invokedAt >= 0
        /\ thrown = "none"
        /\ \E d \in DOMAIN log[s] :
              /\ d > subs[s][i].invokedAt
              /\ Invoked(s, d, i)
        /\ \E d \in DOMAIN log[s] : d <= subs[s][i].invokedAt

\* C4: a dispatched action of a type the reducer does not test for leaves the
\* state as it was before the dispatch, for the counter reducer and for the
\* bio reducers.
C4_UnrecognizedIsIdentity ==
    \A s \in Stores : \A d \in DOMAIN log[s] :
        Unrecognized(s, d) =>
            /\ ~log[s][d].threw
            /\ log[s][d].after = log[s][d].before
            /\ d = Len(log[s]) => state[s] = log[s][d].before

C4_Witness ==
    \E s \in Stores : \E d \in DOMAIN log[s] :
        /\ Unrecognized(s, d)
        /\ reducer[s] = "numberReducer"
        /\ d = Len(log[s])
        /\ state[s] # initial[s]
        /\ state[s] = log[s][d].before

\* C5: every dispatch whose reducer returns calls the listeners, also when the
\* returned state equals the previous one: a listener has been called as many
\* times as dispatches have completed since it was subscribed.
C5_NotifiedOnEveryDispatch ==
    \A s \in Stores : \A i \in DOMAIN subs[s] :
        Cardinality({d \in DOMAIN log[s] : Invoked(s, d, i)})
            = Cardinality({d \in DOMAIN log[s] :
                              d > subs[s][i].at /\ ~log[s][d].threw})

C5_Witness ==
    \E s \in Stores : \E i \in DOMAIN subs[s] :
        /\ Cardinality({d \in DOMAIN log[s] : Invoked(s, d, i)}) >= 2
        /\ \A d \in DOMAIN log[s] : log[s][d].after = log[s][d].before
        /\ subs[s][i].at >= 1

\* C6: in a dispatch whose reducer returns, the state slot holds the reducer's
\* result before the first listener runs, so every listener reads the new
\* state through getState(), and all listeners subscribed before the dispatch
\* have run when it returns.
C6_ListenersSeeNewState ==
    \A s \in Stores : \A d \in DOMAIN log[s] :
        ~log[s][d].threw =>
            /\ log[s][d].after
                 = Reduce(reducer[s], log[s][d].before, log[s][d].action).value
            /\ \A i \in DOMAIN log[s][d].notified :
                  log[s][d].notified[i].seen = log[s][d].after
            /\ Len(log[s][d].notified) = RegisteredBefore(s, d)
            /\ d = Len(log[s]) => state[s] = log[s][d].after

C6_Witness ==
    \E s \in Stores : \E d \in DOMAIN log[s] :
        /\ ~log[s][d].threw
        /\ log[s][d].after # log[s][d].before
        /\ Len(log[s][d].notified) >= 2
        /\ \A i \in DOMAIN log[s][d].notified :
              log[s][d].notified[i].seen = log[s][d].after

\* C7: a dispatch whose reducer throws passes the error to its caller, leaves
\* the state at its value before the dispatch and calls no listener.
C7_ReducerThrowLeavesState ==
    [][\A s \in Stores :
          (Len(log'[s]) = Len(log[s]) + 1
             /\ Reduce(reducer[s], state[s], log'[s][Len(log'[s])].action).threw)
          => /\ thrown' = "TypeError"
             /\ state'[s] = state[s]
             /\ log'[s][Len(log'[s])].threw
             /\ log'[s][Len(log'[s])].notified = <<>>
             /\ listeners'[s] = listeners[s]]_vars

C7_Witness ==
    \E s \in Stores :
        /\ log[s] # <<>>
        /\ log[s][Len(log[s])].threw
        /\ thrown = "TypeError"
        /\ Len(listeners[s]) >= 1
        /\ state[s] # initial[s]
        /\ state[s] = log[s][Len(log[s])].before

\* C8: getState() calls with no dispatch between them return the same value,
\* whatever subscribe calls happen between them, and a call that is not a
\* dispatch leaves the current state as it was.
C8_GetStateHasNoEffect ==
    /\ [](\A s \in Stores : \A i, j \in DOMAIN gets[s] :
            gets[s][i].val = gets[s][j].val)
    /\ [][\A s \in Stores : log'[s] = log[s] => state'[s] = state[s]]_vars

C8_Witness ==
    \E s \in Stores :
        /\ Len(gets[s]) >= 2
        /\ gets[s][1].nl < gets[s][2].nl
        /\ gets[s][1].val = gets[s][2].val
        /\ log[s] # <<>>
        /\ state[s] # initial[s]

\* The calls of index.js: one subscribe, then INCREMENT, INCREMENT_BY 3,
\* DECREMENT.
CounterScenario(s, n) ==
    /\ reducer[s] = "numberReducer"
    /\ Len(log[s]) = n
    /\ ActionsOf(log[s]) = SubSeq(<<INCREMENT, INCREMENT_BY, DECREMENT>>, 1, n)
    /\ Len(subs[s]) = 1
    /\ subs[s][1].at = 0

\* C9: the counter store starts at 0; INCREMENT, then INCREMENT_BY 3, then
\* DECREMENT take it through 1, 4, 3, and each of the three dispatches calls
\* the subscribed listener exactly once.
C9_CounterScenario ==
    \A s \in Stores :
        /\ reducer[s] = "numberReducer" =>
              /\ initial[s] = Num(0)
              /\ numberReducer(Undefined, UNRECOGNIZED).value = Num(0)
        /\ \A n \in 0..3 :
              CounterScenario(s, n) =>
                  /\ AftersOf(log[s]) = SubSeq(<<Num(1), Num(4), Num(3)>>, 1, n)
                  /\ state[s] = <<Num(0), Num(1), Num(4), Num(3)>>[n + 1]
                  /\ \A d \in 1..n :
                        /\ Len(log[s][d].notified) = 1
                        /\ Invoked(s, d, 1)

C9_Witness ==
    \E s \in Stores :
        /\ CounterScenario(s, 3)
        /\ state[s] = Num(3)
        /\ \A d \in 1..3 : Invoked(s, d, 1)

\* C10: from { num: 0, name: '', age: null }, UPDATE_BIO { name: 'Zak',
\* age: 17 } and then INCREMENT_NUM { incrementer: 5 } give
\* { num: 5, name: 'Zak', age: 17 }.
C10_BioScenario ==
    \A s \in Stores :
        (/\ reducer[s] = "stateModifier"
         /\ initial[s] = Obj([num |-> Num(0), name |-> Str(""), age |-> Null])
         /\ ActionsOf(log[s]) = <<UPDATE_BIO, INCREMENT_NUM>>)
        => state[s] = Obj([num |-> Num(5), name |-> Str("Zak"), age |-> Num(17)])

C10_Witness ==
    \E s \in Stores :
        /\ reducer[s] = "stateModifier"
        /\ initial[s] = Obj([num |-> Num(0), name |-> Str(""), age |-> Null])
        /\ ActionsOf(log[s]) = <<UPDATE_BIO, INCREMENT_NUM>>
        /\ state[s] = Obj([num |-> Num(5), name |-> Str("Zak"), age |-> Num(17)])

\* The store.dispatch calls made on s so far.
DispatchCalls(s) ==
    SelectSeq(trace, LAMBDA e : e.call = "store.dispatch" /\ e.store = s)

\* C11: on a store built with createStore(myReducer, {}) with one subscribed
\* listener and no other call made, store.dispatch(UPDATE_BIO { name: 'Zak',
\* age: 17 }) and then store.dispatch(INCREMENT_NUM { incrementer: 5 }) both
\* succeed, the listener runs once per call, and getState() is then
\* { num: 5, name: 'Zak', age: 17 }.
C11_UsageExample ==
    \A s \in Stores :
        (/\ reducer[s] = "myReducer"
         /\ initial[s] = EmptyObject
         /\ Len(subs[s]) = 1
         /\ subs[s][1].at = 0
         /\ ncalls = 1 + Len(DispatchCalls(s))
         /\ \E n \in 1..2 :
               ActionsOf(DispatchCalls(s)) = SubSeq(<<UPDATE_BIO, INCREMENT_NUM>>, 1, n))
        => /\ \A k \in DOMAIN DispatchCalls(s) : ~DispatchCalls(s)[k].threw
           /\ Len(log[s]) = Len(DispatchCalls(s))
           /\ \A d \in DOMAIN log[s] : Len(log[s][d].notified) = 1
           /\ Len(DispatchCalls(s)) = 2 =>
                 state[s] = Obj([num |-> Num(5), name |-> Str("Zak"), age |-> Num(17)])

\* A dispatch or a subscribe call was made on s in this step.
CalledOn(s) == log'[s] # log[s] \/ subs'[s] # subs[s]

InProgress(s) == {j \in DOMAIN stack : stack[j].store = s}

C13_NoInterleaving ==
    \A s \in Stores : Cardinality(InProgress(s)) <= 1

(* C14: an error raised by a callback during a dispatch reaches the caller   *)
(* of the dispatch.  The callbacks before it have been called, in order; the *)
(* callbacks after it are not called by that dispatch, which never returns   *)
(* normally; the state keeps the value that dispatch assigned.               *)
Raised == {n \in DOMAIN trace : trace[n].ev = "throw"}

FailFast(n) ==
    LET s == trace[n].store
        d == trace[n].d
        i == trace[n].i
    IN
    /\ d \in DOMAIN log[s]
    /\ ~log[s][d].threw
    /\ log[s][d].after = Reduce(reducer[s], log[s][d].before, log[s][d].action).value
    /\ Len(log[s][d].notified) = i
    /\ i <= Len(listeners[s])
    /\ \A j \in 1..i : log[s][d].notified[j].fn = listeners[s][j]
    /\ \A m \in DOMAIN trace :
           /\ trace[m].store = s
           /\ trace[m].d = d
           /\ trace[m].ev \in {"call", "end"}
           => m < n /\ trace[m].ev = "call"

Propagates ==
    Calls("thrower") =>
        /\ thrown' = "Error"
        /\ stack' = <<>>
        /\ state' = state
        /\ state[Top.store] = log[Top.store][Top.d].after

C14_ListenerFailFast ==
    /\ [](\A n \in Raised : FailFast(n))
    /\ [][Propagates]_vars

C14_Witness ==
    /\ thrown = "Error"
    /\ stack = <<>>
    /\ \E n \in Raised :
           /\ trace[n].i = 2
           /\ RegisteredBefore(trace[n].store, trace[n].d) >= 3
           /\ Len(log[trace[n].store][trace[n].d].notified) = 2
           /\ state[trace[n].store] = log[trace[n].store][trace[n].d].after
           /\ state[trace[n].store] # log[trace[n].store][trace[n].d].before

(* C15: the list of listeners changes only in a subscribe call, which puts   *)
(* exactly one entry at its end, whether or not the callback is already in   *)
(* the list; a dispatch or a getState call leaves the list as it was, so its *)
(* length never decreases.                                                   *)
SubscribeCall(s) == Len(subs'[s]) = Len(subs[s]) + 1

OnlySubscribeAppends ==
    \A s \in Stores :
        IF SubscribeCall(s)
          THEN /\ Len(listeners'[s]) = Len(listeners[s]) + 1
               /\ SubSeq(listeners'[s], 1, Len(listeners[s])) = listeners[s]
               /\ listeners'[s][Len(listeners'[s])] \in Callbacks
          ELSE listeners'[s] = listeners[s]

C15_ListenersOnlyGrowBySubscribe ==
    /\ [](\A s \in Stores : Len(listeners[s]) = Len(subs[s]))
    /\ [][OnlySubscribeAppends]_vars

C15_Witness ==
    \E s \in Used :
        /\ Len(listeners[s]) = 2
        /\ listeners[s][1] = listeners[s][2]
        /\ log[s] # <<>>
        /\ Len(log[s][Len(log[s])].notified) = 2
        /\ gets[s] # <<>>

(* C16: the counter reducer returns for every action, and for a numeric      *)
(* state s it returns s + 1 for INCREMENT, s - 1 for DECREMENT,              *)
(* s + incrementByThis for INCREMENT_BY and s for anything else; an          *)
(* undefined state counts as 0.                                              *)
Expected(state0, action) ==
    LET s == IF state0 = Undefined THEN 0 ELSE state0.val
        type == Get(action, "type")
    IN  CASE type = Str("INCREMENT") -> Num(s + 1)
          [] type = Str("DECREMENT") -> Num(s - 1)
          [] type = Str("INCREMENT_BY") -> Num(s + Get(action, "incrementByThis").val)
          [] OTHER -> Num(s)

C16_CounterReducer ==
    \A n \in DOMAIN trace :
        /\ ~trace[n].threw
        /\ trace[n].result = Expected(trace[n].state0, trace[n].action)

C16_Witness ==
    /\ Len(trace) >= 3
    /\ trace[1].state0 = Undefined
    /\ trace[1].action = IncrementBy(-2)
    /\ trace[1].result = Num(-2)
    /\ trace[2].action = EmptyObject
    /\ trace[2].result = Num(-2)
    /\ trace[3].action = DECREMENT
    /\ state[1] = Num(-3)

(* C17: INCREMENT_NUM adds: a dispatch of INCREMENT_NUM with incrementer k   *)
(* in a state with num = n leaves num = n + k and leaves name and age as     *)
(* they were.                                                                *)
IncrementsNum(before, action, after) ==
    /\ Get(after, "num") = Plus(Get(before, "num"), Get(action, "incrementer"))
    /\ Get(after, "name") = Get(before, "name")
    /\ Get(after, "age") = Get(before, "age")

C17_IncrementNumAdds ==
    \A s \in Stores : \A d \in DOMAIN log[s] :
        /\ reducer[s] \in {"stateModifier", "myReducer"}
        /\ ~log[s][d].threw
        /\ Get(log[s][d].action, "type") = Str("INCREMENT_NUM")
        /\ Get(log[s][d].before, "num").tag = "number"
        => IncrementsNum(log[s][d].before, log[s][d].action, log[s][d].after)

(* C18: a state value is never changed in place: an object a caller got from *)
(* getState() keeps the field values it had then, whatever is dispatched     *)
(* afterwards, the state after a dispatch of UPDATE_BIO or INCREMENT_NUM     *)
(* being another object; and UPDATE_BIO changes name and age only, keeping   *)
(* num.                                                                      *)
KeepsNum(before, after) ==
    \A k \in DOMAIN Props(before) \cup DOMAIN Props(after) :
        k \notin {"name", "age"} => Get(after, k) = Get(before, k)

C18_StateNeverMutatedInPlace ==
    /\ \A h \in heap.held :
           /\ h.ref \in DOMAIN heap.objects
           /\ heap.objects[h.ref] = h.seen
    /\ heap.cur \in DOMAIN heap.objects
    /\ \A s \in Used :
           /\ heap.objects[heap.cur] = state[s]
           /\ \A d \in DOMAIN log[s] :
                  ~log[s][d].threw /\ Get(log[s][d].action, "type") = Str("UPDATE_BIO")
                  => KeepsNum(log[s][d].before, log[s][d].after)

C18_Witness ==
    /\ \E h \in heap.held :
           /\ h.ref = 1
           /\ h.seen = initial[1]
           /\ heap.cur = 3
    /\ Len(log[1]) = 2
    /\ Get(log[1][1].action, "type") = Str("INCREMENT_NUM")
    /\ Get(log[1][2].action, "type") = Str("UPDATE_BIO")
    /\ Get(state[1], "num") = Num(5)
    /\ Get(state[1], "name") = Str("Zak")

(* C19: a callback subscribed from inside a callback, while a dispatch is    *)
(* notifying, is not called by that dispatch (nor by a dispatch that began   *)
(* before it); every later dispatch that returns calls it exactly once,      *)
(* after all the callbacks subscribed before it.                             *)
DuringDispatch == {n \in DOMAIN trace : trace[n].ev = "subscribe" /\ trace[n].d > 0}

Ended(s, d) == \E m \in DOMAIN trace : trace[m] = Ev("end", s, d, 0)

CallsOf(s, d, p) == {m \in DOMAIN trace : trace[m] = Ev("call", s, d, p)}

JoinsAtNextDispatch(n) ==
    LET s == trace[n].store
        p == trace[n].i
    IN
    /\ p \in DOMAIN listeners[s]
    /\ listeners[s][p] = "logUpdate"
    /\ \A d \in DOMAIN log[s] :
           /\ d <= trace[n].d => CallsOf(s, d, p) = {}
           /\ d > trace[n].d /\ Ended(s, d) =>
                  /\ Cardinality(CallsOf(s, d, p)) = 1
                  /\ \A m \in CallsOf(s, d, p) : \A j \in 1..(p - 1) :
                         \E m1 \in CallsOf(s, d, j) : m1 < m

C19_SubscribedDuringDispatch ==
    \A n \in DuringDispatch : JoinsAtNextDispatch(n)

C19_Witness ==
    \E n \in DuringDispatch :
        /\ Ended(trace[n].store, trace[n].d)
        /\ trace[n].i >= 2
        /\ \E d \in DOMAIN log[trace[n].store] :
               /\ d > trace[n].d
               /\ Ended(trace[n].store, d)
               /\ CallsOf(trace[n].store, d, trace[n].i) # {}

====
